---- MODULE Spec2Model ----
(***************************************************************************)
(* Model of the upbit_bot signal / risk / execution pipeline and of the    *)
(* per-cycle control loop of AutoTradingBot.                               *)
(*                                                                         *)
(* Numbers.  The program computes with Python floats.  They are modelled   *)
(* as exact rationals <<n, d>> in lowest terms with d > 0; <<0, 0>> is NaN *)
(* (every comparison with it is false, every operation on it yields it).   *)
(* Rounding of a float operation to 53 bits is outside the model.          *)
(***************************************************************************)
EXTENDS Integers, Sequences, FiniteSets, TLC

\* ---------------------------------------------------------------- numbers

Abs(i) == IF i < 0 THEN -i ELSE i

RECURSIVE GCD(_, _)
GCD(a, b) == IF b = 0 THEN a ELSE GCD(b, a % b)

NaN == <<0, 0>>
IsNaN(x) == x[2] = 0

\* Bind(e, F) is F(e) with e evaluated once, before F is applied
Bind(e, F(_)) == CHOOSE r \in {F(x) : x \in {e}} : TRUE

\* An operator whose name ends in Q is the formula on evaluated numbers; the
\* operator without the Q binds its arguments first, so that each argument
\* expression is evaluated once.

\* n / d in lowest terms (d # 0)
RQ(n, d) ==
    LET s == IF d < 0 THEN -1 ELSE 1
        g == GCD(Abs(n), Abs(d))
    IN  <<(s * n) \div g, (s * d) \div g>>
R(n, d) == CHOOSE r \in {RQ(x, y) : x \in {n}, y \in {d}} : TRUE

I(n) == <<n, 1>>
Zero == <<0, 1>>
One == <<1, 1>>

\* (products are formed after cancelling common factors, so that the
\* intermediate integers stay small)
AddQ(a, b) == IF IsNaN(a) \/ IsNaN(b) THEN NaN
              ELSE R(a[1] * (b[2] \div GCD(a[2], b[2]))
                       + b[1] * (a[2] \div GCD(a[2], b[2])),
                     (a[2] \div GCD(a[2], b[2])) * b[2])
RAdd(a, b) == CHOOSE r \in {AddQ(x, y) : x \in {a}, y \in {b}} : TRUE

NegQ(a) == IF IsNaN(a) THEN NaN ELSE <<-a[1], a[2]>>
RNeg(a) == CHOOSE r \in {NegQ(x) : x \in {a}} : TRUE
RSub(a, b) == RAdd(a, RNeg(b))

MulQ(a, b) == IF IsNaN(a) \/ IsNaN(b) THEN NaN
              ELSE <<RQ(a[1], b[2])[1] * RQ(b[1], a[2])[1],
                     RQ(a[1], b[2])[2] * RQ(b[1], a[2])[2]>>
RMul(a, b) == CHOOSE r \in {MulQ(x, y) : x \in {a}, y \in {b}} : TRUE

\* float division; the callers below never divide by zero within the input
\* sets (Python raises ZeroDivisionError there), NaN stands for that case
DivQ(a, b) == IF IsNaN(a) \/ IsNaN(b) \/ b[1] = 0 THEN NaN
              ELSE MulQ(a, RQ(b[2], b[1]))
RDiv(a, b) == CHOOSE r \in {DivQ(x, y) : x \in {a}, y \in {b}} : TRUE

AbsQ(a) == IF IsNaN(a) THEN NaN ELSE <<Abs(a[1]), a[2]>>
RAbs(a) == CHOOSE r \in {AbsQ(x) : x \in {a}} : TRUE

\* n1/d1 < n2/d2 for d1, d2 > 0, by comparing the integer parts and then
\* the reciprocals of the fractional parts (no product is formed)
RECURSIVE FracLt(_, _, _, _)
FracLt(n1, d1, n2, d2) ==
    IF n1 \div d1 # n2 \div d2 THEN n1 \div d1 < n2 \div d2
    ELSE IF n2 % d2 = 0 THEN FALSE
    ELSE IF n1 % d1 = 0 THEN TRUE
    ELSE FracLt(d2, n2 % d2, d1, n1 % d1)

LtQ(a, b) == ~IsNaN(a) /\ ~IsNaN(b) /\ FracLt(a[1], a[2], b[1], b[2])
LeQ(a, b) == ~IsNaN(a) /\ ~IsNaN(b) /\ ~FracLt(b[1], b[2], a[1], a[2])
RLt(a, b) == \E x \in {a}, y \in {b} : LtQ(x, y)
RLe(a, b) == \E x \in {a}, y \in {b} : LeQ(x, y)
RGt(a, b) == RLt(b, a)
RGe(a, b) == RLe(b, a)

\* Python's builtin min(a, b) / max(a, b): the first argument unless the
\* second compares strictly below / above it
PyMin(a, b) == CHOOSE r \in {IF LtQ(y, x) THEN y ELSE x : x \in {a}, y \in {b}} : TRUE
PyMax(a, b) == CHOOSE r \in {IF LtQ(x, y) THEN y ELSE x : x \in {a}, y \in {b}} : TRUE

\* Python's round(x) of a float: nearest integer, ties to the even one
Floor(a) == a[1] \div a[2]
RoundQ(a) ==
    IF 2 * (a[1] - Floor(a) * a[2]) < a[2] THEN Floor(a)
    ELSE IF 2 * (a[1] - Floor(a) * a[2]) > a[2] THEN Floor(a) + 1
    ELSE IF Floor(a) % 2 = 0 THEN Floor(a) ELSE Floor(a) + 1
PyRound(a) == CHOOSE r \in {RoundQ(x) : x \in {a}} : TRUE

\* ------------------------------------------------------------ dictionaries
\* A Python dict is a sequence of [k, v] entries in insertion order.

Keys(d) == {d[i].k : i \in 1..Len(d)}
Has(d, k) == k \in Keys(d)
Get(d, k) == (CHOOSE i \in 1..Len(d) : d[i].k = k)
Val(d, k) == d[Get(d, k)].v
Put(d, k, v) == IF Has(d, k) THEN [d EXCEPT ![Get(d, k)].v = v]
                ELSE Append(d, [k |-> k, v |-> v])
Pop(d, k) == SelectSeq(d, LAMBDA e : e.k # k)

RECURSIVE SumValues(_)
SumValues(d) == IF d = <<>> THEN Zero ELSE RAdd(SumValues(Tail(d)), Head(d).v)

\* --------------------------------------------------------------- RiskLimits

per_trade_risk_pct == R(1, 100)
daily_loss_limit_pct == R(3, 100)
max_position_pct == R(1, 10)
max_total_exposure_pct == I(1)
max_positions == 10

\* --------------------------------------------------------------- RiskEngine

\* mutant: the position count is compared with > instead of >=
can_open_over_limit(equity, market, open_positions) ==
    IF RLe(equity, Zero) THEN FALSE
    ELSE IF Len(open_positions) > max_positions THEN FALSE
    ELSE IF RGe(SumValues(open_positions), max_total_exposure_pct) THEN FALSE
    ELSE IF Has(open_positions, market)
            /\ RGe(Val(open_positions, market), max_position_pct) THEN FALSE
    ELSE TRUE

\* mutant: the number of open positions is not looked at
can_open_without_count(equity, market, open_positions) ==
    IF RLe(equity, Zero) THEN FALSE
    ELSE IF RGe(SumValues(open_positions), max_total_exposure_pct) THEN FALSE
    ELSE IF Has(open_positions, market)
            /\ RGe(Val(open_positions, market), max_position_pct) THEN FALSE
    ELSE TRUE

can_open_new_position(equity, market, open_positions) ==
    IF RLe(equity, Zero) THEN FALSE
    ELSE IF Len(open_positions) >= max_positions THEN FALSE
    ELSE IF RGe(SumValues(open_positions), max_total_exposure_pct) THEN FALSE
    ELSE IF Has(open_positions, market)
            /\ RGe(Val(open_positions, market), max_position_pct) THEN FALSE
    ELSE TRUE

\* mutant: the size is not capped at max_position_pct of equity
position_size_uncapped(equity, entry_price, stop_price) ==
    IF RAbs(RSub(entry_price, stop_price)) = Zero THEN Zero
    ELSE RDiv(RMul(equity, per_trade_risk_pct), RAbs(RSub(entry_price, stop_price)))

position_size(equity, entry_price, stop_price) ==
    LET risk_amount == RMul(equity, per_trade_risk_pct)
        distance == RAbs(RSub(entry_price, stop_price))
    IN  IF distance = Zero THEN Zero
        ELSE LET size == RDiv(risk_amount, distance)
                 max_size == RDiv(RMul(equity, max_position_pct), entry_price)
             IN  PyMin(size, max_size)

register_pnl(daily, realized) == RAdd(daily, PyMin(realized, Zero))

\* mutant: the accumulated loss is compared without abs()
hit_daily_limit_signed(daily, equity) ==
    RGe(daily, RMul(equity, daily_loss_limit_pct))

hit_daily_limit(daily, equity) ==
    RGe(RAbs(daily), RMul(equity, daily_loss_limit_pct))

\* ---------------------------------------------------------- ExecutionEngine

\* mutant: the tick of the band from 10000 is not a divisor of 10000
_tick_size_uneven(price) ==
    IF RLt(price, I(10)) THEN R(1, 100)
    ELSE IF RLt(price, I(100)) THEN R(1, 10)
    ELSE IF RLt(price, I(1000)) THEN I(1)
    ELSE IF RLt(price, I(10000)) THEN I(5)
    ELSE IF RLt(price, I(50000)) THEN I(15)
    ELSE IF RLt(price, I(100000)) THEN I(50)
    ELSE IF RLt(price, I(500000)) THEN I(100)
    ELSE IF RLt(price, I(1000000)) THEN I(500)
    ELSE IF RLt(price, I(2000000)) THEN I(1000)
    ELSE I(2000)

_tick_size(price) ==
    IF RLt(price, I(10)) THEN R(1, 100)
    ELSE IF RLt(price, I(100)) THEN R(1, 10)
    ELSE IF RLt(price, I(1000)) THEN I(1)
    ELSE IF RLt(price, I(10000)) THEN I(5)
    ELSE IF RLt(price, I(50000)) THEN I(10)
    ELSE IF RLt(price, I(100000)) THEN I(50)
    ELSE IF RLt(price, I(500000)) THEN I(100)
    ELSE IF RLt(price, I(1000000)) THEN I(500)
    ELSE IF RLt(price, I(2000000)) THEN I(1000)
    ELSE I(2000)

align_price(price) ==
    LET tick == _tick_size(price)
    IN  RMul(I(PyRound(RDiv(price, tick))), tick)

min_total_floor == 30000

\* the fee rate build_order reads from the order_chance answer
FeeOf(chance, side) == IF side = "buy" THEN chance.bid_fee ELSE chance.ask_fee

OrderValue(price, volume, fee) == RMul(RMul(price, volume), RAdd(One, fee))

\* mutant: the volume is raised until the value with the fee meets the minimum
RaiseToMinimumWithFee(price, volume, fee, min_total) ==
    IF RLt(OrderValue(price, volume, fee), min_total)
    THEN RDiv(min_total, RMul(price, RAdd(One, fee)))
    ELSE volume

\* the minimum-notional stage: volume is the risk-driven volume
RaiseToMinimum(price, volume, fee, min_total) ==
    IF RLt(OrderValue(price, volume, fee), min_total) THEN RDiv(min_total, price)
    ELSE volume

\* mutant: the cash clamp forgets the fee
ClampToCashNoFee(price, volume, fee, cash_available) ==
    PyMax(IF RGt(OrderValue(price, volume, fee), cash_available)
          THEN RDiv(cash_available, price)
          ELSE volume,
          Zero)

\* the cash stage and the floor at zero
ClampToCash(price, volume, fee, cash_available) ==
    PyMax(IF RGt(OrderValue(price, volume, fee), cash_available)
          THEN RDiv(cash_available, RMul(price, RAdd(One, fee)))
          ELSE volume,
          Zero)

MinTotal(chance) == PyMax(I(min_total_floor), chance.min_total)

\* the volume after the risk stage and the minimum-notional stage
StagedVolume(equity, side, entry, stop, chance) ==
    Bind(align_price(entry), LAMBDA price :
      Bind(position_size(equity, price, stop), LAMBDA volume :
        RaiseToMinimum(price, volume, FeeOf(chance, side), MinTotal(chance))))

build_order(equity, side, entry, stop, cash_available, chance) ==
    Bind(align_price(entry), LAMBDA price :
      Bind(StagedVolume(equity, side, entry, stop, chance), LAMBDA volume :
        <<price, ClampToCash(price, volume, FeeOf(chance, side), cash_available)>>))

\* ----------------------------------------------------------- StrategyEngine
\* A frame of candles is represented by what the engine reads from it: the
\* number of bars, the last close, and the last values of ATR, the MACD
\* histogram and RSI, plus the weighted indicator sum of score_market.

\* A close series is a sequence of numbers; the series an indicator returns
\* has the same length, NaN where pandas has no value.

\* Series.diff()
Diff(close) ==
    [i \in 1..Len(close) |-> IF i = 1 THEN NaN ELSE RSub(close[i], close[i - 1])]

\* Series.clip(lower=0) and Series.clip(upper=0): NaN stays NaN
ClipLower(series) ==
    [i \in 1..Len(series) |->
       IF IsNaN(series[i]) THEN NaN ELSE PyMax(series[i], Zero)]
ClipUpper(series) ==
    [i \in 1..Len(series) |->
       IF IsNaN(series[i]) THEN NaN ELSE PyMin(series[i], Zero)]

RECURSIVE WindowSum(_, _, _)
WindowSum(series, from, to) ==
    IF from > to THEN Zero
    ELSE RAdd(WindowSum(series, from, to - 1), series[to])

\* Series.rolling(window).mean(): NaN until window values are there, and
\* while one of them is NaN (min_periods is the window)
RollingMean(series, window) ==
    [i \in 1..Len(series) |->
       IF i < window \/ \E j \in (i - window + 1)..i : IsNaN(series[j]) THEN NaN
       ELSE RDiv(WindowSum(series, i - window + 1, i), I(window))]

\* gain / loss.replace(0, float("inf")): a loss of 0 becomes inf, and a finite
\* gain divided by inf is 0
RsOf(gain, loss) ==
    IF IsNaN(gain) \/ IsNaN(loss) THEN NaN
    ELSE IF loss = Zero THEN Zero
    ELSE RDiv(gain, loss)

_rsi(close, window) ==
    LET delta == Diff(close)
        gain == RollingMean(ClipLower(delta), window)
        loss == [i \in 1..Len(close) |->
                   RNeg(RollingMean(ClipUpper(delta), window)[i])]
    IN  [i \in 1..Len(close) |->
           RSub(I(100), RDiv(I(100), RAdd(One, RsOf(gain[i], loss[i]))))]

\* mutant: the trailing stop is measured from the entry price
should_exit_trailing_from_entry(candles, position) ==
    LET close == candles.close
        atr == candles.atr
        hist == candles.hist
        rsi == candles.rsi
    IN  IF position.side = "buy"
        THEN LET trailing_stop == PyMax(position.stop,
                                        RSub(position.entry_price, position.trailing))
             IN  \/ RLe(close, trailing_stop) \/ RLe(close, position.stop)
                 \/ RGe(close, position.take_profit)
                 \/ (RLt(hist, Zero) /\ RLt(rsi, I(45)))
                 \/ (RGt(atr, Zero)
                     /\ RLt(RDiv(RSub(close, position.entry_price), atr), I(-1)))
        ELSE LET trailing_stop == PyMin(position.stop,
                                        RAdd(position.entry_price, position.trailing))
             IN  \/ RGe(close, trailing_stop) \/ RGe(close, position.stop)
                 \/ RLe(close, position.take_profit)
                 \/ (RGt(hist, Zero) /\ RGt(rsi, I(55)))
                 \/ (RGt(atr, Zero)
                     /\ RLt(RDiv(RSub(position.entry_price, close), atr), I(-1)))

\* mutant: the stop comparisons are strict
should_exit_strict(candles, position) ==
    LET close == candles.close
        atr == candles.atr
        hist == candles.hist
        rsi == candles.rsi
    IN  IF position.side = "buy"
        THEN LET trailing_stop == PyMax(position.stop, RSub(close, position.trailing))
             IN  \/ RLt(close, trailing_stop) \/ RLt(close, position.stop)
                 \/ RGe(close, position.take_profit)
                 \/ (RLt(hist, Zero) /\ RLt(rsi, I(45)))
                 \/ (RGt(atr, Zero)
                     /\ RLt(RDiv(RSub(close, position.entry_price), atr), I(-1)))
        ELSE LET trailing_stop == PyMin(position.stop, RAdd(close, position.trailing))
             IN  \/ RGt(close, trailing_stop) \/ RGt(close, position.stop)
                 \/ RLe(close, position.take_profit)
                 \/ (RGt(hist, Zero) /\ RGt(rsi, I(55)))
                 \/ (RGt(atr, Zero)
                     /\ RLt(RDiv(RSub(position.entry_price, close), atr), I(-1)))

should_exit(candles, position) ==
    LET close == candles.close
        atr == candles.atr
        hist == candles.hist
        rsi == candles.rsi
    IN  IF position.side = "buy"
        THEN LET trailing_stop == PyMax(position.stop, RSub(close, position.trailing))
             IN  \/ RLe(close, trailing_stop) \/ RLe(close, position.stop)
                 \/ RGe(close, position.take_profit)
                 \/ (RLt(hist, Zero) /\ RLt(rsi, I(45)))
                 \/ (RGt(atr, Zero)
                     /\ RLt(RDiv(RSub(close, position.entry_price), atr), I(-1)))
        ELSE LET trailing_stop == PyMin(position.stop, RAdd(close, position.trailing))
             IN  \/ RGe(close, trailing_stop) \/ RGe(close, position.stop)
                 \/ RLe(close, position.take_profit)
                 \/ (RGt(hist, Zero) /\ RGt(rsi, I(55)))
                 \/ (RGt(atr, Zero)
                     /\ RLt(RDiv(RSub(position.entry_price, close), atr), I(-1)))

\* mutant: the score is not gated by atr > 0
score_market_ungated(candles) ==
    IF candles.n < 60 THEN Zero ELSE candles.raw

score_market(candles) ==
    IF candles.n < 60 THEN Zero
    ELSE LET quality == IF RGt(candles.atr, Zero) THEN One ELSE Zero
         IN  RMul(candles.raw, quality)

\* the Signal, or no Signal: a sequence of length at most one
generate_entry_signal(market, candles) ==
    LET score == score_market(candles)
        close == candles.close
        atr == candles.atr
    IN  IF score = Zero THEN <<>>
        ELSE IF RGt(score, Zero)
        THEN <<[market |-> market, side |-> "buy", score |-> score, entry |-> close,
                stop |-> PyMax(RSub(close, RMul(atr, I(2))), RMul(close, R(97, 100))),
                take_profit |-> RAdd(close, RMul(atr, I(3))),
                trailing |-> RMul(atr, R(3, 2))]>>
        ELSE <<[market |-> market, side |-> "sell", score |-> score, entry |-> close,
                stop |-> PyMin(RAdd(close, RMul(atr, I(2))), RMul(close, R(103, 100))),
                take_profit |-> RSub(close, RMul(atr, I(3))),
                trailing |-> RMul(atr, R(3, 2))]>>

\* ------------------------------------------------------------ PortfolioState

open_weights_of(equity, positions) ==
    IF equity = Zero THEN <<>>
    ELSE [i \in 1..Len(positions) |->
            [k |-> positions[i].k,
             v |-> RDiv(RMul(positions[i].v.entry_price, positions[i].v.volume), equity)]]

\* ---------------------------------------------------------- refresh_portfolio
\* A balance row is [currency, balance, locked, avg_buy_price]; currency KRW
\* is 0 and currency c of market KRW-c is the market's number c.

KRW == 0

RECURSIVE KrwTotal(_)
KrwTotal(balances) ==
    IF balances = <<>> THEN Zero
    ELSE LET bal == balances[Len(balances)]
             rest == KrwTotal(SubSeq(balances, 1, Len(balances) - 1))
         IN  IF bal.currency = KRW THEN RAdd(rest, RAdd(bal.balance, bal.locked))
             ELSE rest

\* holding_markets and avg_price, one dict: market -> [qty, avg]
RECURSIVE Holdings(_)
Holdings(balances) ==
    IF balances = <<>> THEN <<>>
    ELSE LET bal == balances[Len(balances)]
             rest == Holdings(SubSeq(balances, 1, Len(balances) - 1))
         IN  IF bal.currency = KRW THEN rest
             ELSE Put(rest, bal.currency,
                      [qty |-> RAdd(bal.balance, bal.locked), avg |-> bal.avg_buy_price])

\* the mark price of a holding: the ticker's trade_price, else avg_buy_price
MarkPrice(h, tickers) ==
    IF h.k \in DOMAIN tickers THEN tickers[h.k] ELSE h.v.avg

\* mutant: the holdings are valued at their average buy price
RECURSIVE MarkedValueAtCost(_, _)
MarkedValueAtCost(holdings, tickers) ==
    IF holdings = <<>> THEN Zero
    ELSE RAdd(MarkedValueAtCost(Tail(holdings), tickers),
              RMul(Head(holdings).v.avg, Head(holdings).v.qty))

RECURSIVE MarkedValue(_, _)
MarkedValue(holdings, tickers) ==
    IF holdings = <<>> THEN Zero
    ELSE RAdd(MarkedValue(Tail(holdings), tickers),
              RMul(MarkPrice(Head(holdings), tickers), Head(holdings).v.qty))

RebuiltPosition(h, tickers) ==
    LET price == MarkPrice(h, tickers)
    IN  [market |-> h.k, side |-> "buy", entry_price |-> h.v.avg, volume |-> h.v.qty,
         stop |-> RMul(price, R(97, 100)), take_profit |-> RMul(price, R(105, 100)),
         trailing |-> RMul(price, R(2, 100))]

refresh_portfolio(balances, tickers) ==
    LET krw == KrwTotal(balances)
        holdings == Holdings(balances)
    IN  [equity |-> RAdd(krw, MarkedValue(holdings, tickers)),
         cash |-> krw,
         positions |-> [i \in 1..Len(holdings) |->
                          [k |-> holdings[i].k, v |-> RebuiltPosition(holdings[i], tickers)]]]

\* ------------------------------------------------------------ UniverseFilter

min_krw_amount == 300000000
top_n == 50

\* sorted(..., key=..., reverse=True) / list.sort(key=..., reverse=True) on a
\* sequence of [key, item] pairs: larger keys first, equal keys in their
\* original order (Python's sort is stable, also with reverse=True)
InsertDesc(sorted, x) ==
    LET below == {i \in 1..Len(sorted) : RLt(sorted[i].key, x.key)}
        pos == IF below = {} THEN Len(sorted) + 1
               ELSE CHOOSE i \in below : \A j \in below : i <= j
    IN  SubSeq(sorted, 1, pos - 1) \o <<x>> \o SubSeq(sorted, pos, Len(sorted))

RECURSIVE SortDesc(_)
SortDesc(s) ==
    IF s = <<>> THEN <<>>
    ELSE InsertDesc(SortDesc(SubSeq(s, 1, Len(s) - 1)), s[Len(s)])

Items(pairs) == [i \in 1..Len(pairs) |-> pairs[i].item]

\* markets: the sorted list of fetch_krw_markets; avg[m]: the 30-day average
\* traded notional of m's day candles, or NoCandles when the answer is empty
NoCandles == <<-1, 1>>
filter_by_liquidity(markets, avg) ==
    LET qualified == SelectSeq([i \in 1..Len(markets) |->
                                   [key |-> avg[markets[i]], item |-> markets[i]]],
                               LAMBDA q : q.key # NoCandles
                                          /\ RGe(q.key, I(min_krw_amount)))
        ranked == Items(SortDesc(qualified))
    IN  SubSeq(ranked, 1, IF Len(ranked) < top_n THEN Len(ranked) ELSE top_n)

\* -------------------------------------------------------------- MarketUniverse
\* A listing row is [market, krw, warning]: krw says the market id starts with
\* "KRW-", warning that market_warning is set.  Markets are numbered in the
\* order of their ids, so sorted() is ascending by number.

RECURSIVE SortedSeq(_)
SortedSeq(S) ==
    IF S = {} THEN <<>>
    ELSE LET m == CHOOSE x \in S : \A y \in S : x <= y
         IN  <<m>> \o SortedSeq(S \ {m})

fetch_krw_markets(listing) ==
    SortedSeq({listing[i].market : i \in {j \in 1..Len(listing) :
                                           listing[j].krw /\ ~listing[j].warning}})

\* ---------------------------------------------------------- _generate_signals

RECURSIVE SignalsOf(_, _)
SignalsOf(markets, candles) ==
    IF markets = <<>> THEN <<>>
    ELSE LET market == markets[Len(markets)]
             rest == SignalsOf(SubSeq(markets, 1, Len(markets) - 1), candles)
             sig == generate_entry_signal(market, candles[market])
         IN  IF sig = <<>> THEN rest ELSE Put(rest, market, sig[1])

\* ----------------------------------------------------------- _enter_positions

\* mutant: the signals are sorted by score, not by abs(score)
OrderedBySignedScore(sigs) ==
    Items(SortDesc([i \in 1..Len(sigs) |->
                      [key |-> sigs[i].v.score, item |-> sigs[i].v]]))

\* sorted(signals.values(), key=lambda s: abs(s.score), reverse=True)
OrderedSignals(sigs) ==
    Items(SortDesc([i \in 1..Len(sigs) |->
                      [key |-> RAbs(sigs[i].v.score), item |-> sigs[i].v]]))

\* mutant: the entered weight is not recorded
AddWeightDropped(weights, market, weight) == weights

\* open_weights[market] = open_weights.get(market, 0) + weight
AddWeight(weights, market, weight) ==
    Put(weights, market,
        RAdd(IF Has(weights, market) THEN Val(weights, market) ELSE Zero, weight))

EntryWeight(eq, price, volume) ==
    IF eq # Zero THEN RDiv(RMul(price, volume), eq) ELSE Zero

EntryPosition(signal, price, volume) ==
    [market |-> signal.market, side |-> signal.side, entry_price |-> price,
     volume |-> volume, stop |-> signal.stop, take_profit |-> signal.take_profit,
     trailing |-> signal.trailing]

\* ------------------------------------------------------------------- inputs
\* What the exchange answers is drawn from these sets.

Markets == {1, 2, 3}

ListingInputs ==
    { <<[market |-> 2, krw |-> TRUE, warning |-> FALSE],
        [market |-> 3, krw |-> TRUE, warning |-> TRUE],
        [market |-> 1, krw |-> TRUE, warning |-> FALSE]>>,
      <<[market |-> 1, krw |-> TRUE, warning |-> FALSE],
        [market |-> 2, krw |-> FALSE, warning |-> FALSE],
        [market |-> 3, krw |-> TRUE, warning |-> TRUE]>> }

AvgInputs == {NoCandles, I(200000000), I(300000000), I(400000000)}

Frame(n, close, atr, hist, rsi, raw) ==
    [n |-> n, close |-> close, atr |-> atr, hist |-> hist, rsi |-> rsi, raw |-> raw]

FrameInputs ==
    { Frame(200, I(100), I(1), I(1), I(60), I(5)),
      Frame(200, I(100), I(1), I(1), I(60), I(3)),
      Frame(200, I(100), I(1), I(-1), I(40), I(-5)),
      Frame(10, I(96), NaN, R(-1, 2), NaN, Zero) }

\* the outcome of a fetch that raised
FetchError == Frame(-1, NaN, NaN, NaN, NaN, NaN)

Bal(currency, balance, locked, avg) ==
    [currency |-> currency, balance |-> I(balance), locked |-> I(locked),
     avg_buy_price |-> I(avg)]

BalanceInputs ==
    { <<>>,
      <<Bal(KRW, 1000000, 0, 0)>>,
      <<Bal(KRW, 100000, 0, 0), Bal(3, 9000, 0, 100)>>,
      <<Bal(KRW, 1000, 0, 0), Bal(1, 500, 0, 100)>>,
      <<Bal(KRW, 500000, 450000, 0), Bal(1, 400, 100, 100)>>,
      <<Bal(2, 1, 0, 0)>>,
      <<Bal(KRW, 200000, 0, 0), Bal(3, 9000, 0, 110)>>,
      <<Bal(KRW, 800000, 0, 0), Bal(1, 400, 0, 100), Bal(3, 1600, 0, 100)>>,
      <<Bal(KRW, 50000, 0, 0), Bal(3, 1, 0, 100), Bal(KRW, 50000, 0, 0),
        Bal(3, 9000, 0, 100)>> }

TickerInputs == {I(100), I(110)}

\* the ticker maps client.tickers can answer for the holdings asked about
TickerMaps(held) == UNION {[S -> TickerInputs] : S \in SUBSET held}

Chance(min_total, bid_fee, ask_fee) ==
    [min_total |-> min_total, bid_fee |-> bid_fee, ask_fee |-> ask_fee]

ChanceInputs ==
    { Chance(I(5000), Zero, Zero), Chance(I(5000), R(1, 2000), R(1, 2000)) }

\* -------------------------------------------------------------------- state

VARIABLES
    pc,             \* the phase run_cycle / run_forever is at
    equity, cash, positions,        \* PortfolioState
    daily_loss,     \* RiskEngine.daily_loss
    universe,       \* run_cycle's universe
    signals,        \* run_cycle's signals
    exit_items,     \* _exit_checks: the items of list(positions.items()) left
    exit_candles,   \* _exit_checks: candles
    ordered, idx,   \* _enter_positions: ordered and the loop's position in it
    open_weights,   \* _enter_positions: open_weights
    orders,         \* history: the place_order calls of this cycle
    error,          \* history: the phase whose exception ended this cycle
    fetch_failed,   \* history: markets whose fetch raised in _generate_signals
    limit_hit,      \* history: what hit_daily_limit answered in this cycle
    entry0,         \* history: cash and weights when _enter_positions began
    exit0,          \* history: the positions when _exit_checks began
    refresh0,       \* history: what the exchange answered to refresh_portfolio,
                    \* and, until the cycle's next step, the positions before it
    fanout,         \* the tasks of the asyncio.gather in flight, and of the last one
    call            \* a direct call of one engine function and its result

vars == <<pc, equity, cash, positions, daily_loss, universe, signals, exit_items,
          exit_candles, ordered, idx, open_weights, orders, error, fetch_failed,
          limit_hit, entry0, exit0, refresh0, fanout, call>>

state_vars == <<equity, cash, positions>>
risk_vars == <<daily_loss>>
cycle_vars == <<universe, signals, exit_items, exit_candles, ordered, idx,
                open_weights>>
hist_vars == <<orders, error, fetch_failed, limit_hit, entry0, exit0, refresh0>>

NoCandlesYet == [m \in {} |-> FetchError]
NoEntry == [cash |-> Zero, weights |-> <<>>, positions |-> <<>>]
NoCall == [fn |-> "none"]
NoRefresh == [done |-> FALSE]
NoResults == [i \in {} |-> FetchError]
NoFanOut == [kind |-> "none", markets |-> <<>>, pending |-> {},
             results |-> NoResults, order |-> <<>>]

Init ==
    /\ pc = "refresh"
    /\ equity = Zero /\ cash = Zero /\ positions = <<>>
    /\ daily_loss = Zero
    /\ universe = <<>> /\ signals = <<>>
    /\ exit_items = <<>> /\ exit_candles = NoCandlesYet
    /\ ordered = <<>> /\ idx = 1 /\ open_weights = <<>>
    /\ orders = <<>> /\ error = "none" /\ fetch_failed = {}
    /\ limit_hit = "na" /\ entry0 = NoEntry /\ exit0 = <<>>
    /\ refresh0 = NoRefresh
    /\ fanout = NoFanOut
    /\ call = NoCall

\* an exception leaves run_cycle: run_forever logs it and goes to sleep
Raise(phase) == /\ pc' = "sleep" /\ error' = phase

\* ------------------------------------------------------- run_cycle, by phase

\* mutant: the rebuilt positions are merged into the positions PortfolioState
\* already holds (dict.update) and not assigned in their place
RefreshPortfolioUpdating ==
    /\ pc = "refresh"
    /\ \E balances \in BalanceInputs :
         \E tickers \in TickerMaps(Keys(Holdings(balances))) :
            LET st == refresh_portfolio(balances, tickers)
            IN  /\ equity' = st.equity
                /\ cash' = st.cash
                /\ positions' = st.positions
                                  \o SelectSeq(positions,
                                               LAMBDA e : ~Has(st.positions, e.k))
                /\ refresh0' = [done |-> TRUE, balances |-> balances,
                                tickers |-> tickers, prior |-> positions]
    /\ pc' = "select"
    /\ UNCHANGED <<risk_vars, cycle_vars, orders, error, fetch_failed, limit_hit,
                   entry0, exit0, fanout, call>>

\* refresh_portfolio: balances, tickers, then the three assignments
RefreshPortfolio ==
    /\ pc = "refresh"
    /\ \E balances \in BalanceInputs :
         \E tickers \in TickerMaps(Keys(Holdings(balances))) :
            LET st == refresh_portfolio(balances, tickers)
            IN  /\ equity' = st.equity
                /\ cash' = st.cash
                /\ positions' = st.positions
                /\ refresh0' = [done |-> TRUE, balances |-> balances,
                                tickers |-> tickers, prior |-> positions]
    /\ pc' = "select"
    /\ UNCHANGED <<risk_vars, cycle_vars, orders, error, fetch_failed, limit_hit,
                   entry0, exit0, fanout, call>>

\* client.balances() or client.tickers() raises: nothing is assigned
RefreshFails ==
    /\ pc = "refresh"
    /\ Raise("refresh")
    /\ UNCHANGED <<state_vars, risk_vars, cycle_vars, orders, fetch_failed,
                   limit_hit, entry0, exit0, refresh0, fanout, call>>

\* ------------------------------------------------------------ asyncio.gather
\* A fan-out is one task per market; a task that completes leaves its result,
\* which carries the market it was asked for (the tuple of fetch_daily, the
\* "market" column of the frame), in any order.

StartFanOut(kind, markets) ==
    [kind |-> kind, markets |-> markets, pending |-> 1..Len(markets),
     results |-> NoResults, order |-> <<>>]

\* mutant: the results in the order in which the tasks completed
gather_as_completed(fo) ==
    [i \in 1..Len(fo.markets) |-> fo.results[fo.order[i]]]

\* await asyncio.gather(*tasks): the results in the order of the tasks
gather(fo) == [i \in 1..Len(fo.markets) |-> fo.results[i]]

\* {market: frame for market, frame in zip(markets, results)}
JoinByMarket(markets, results) ==
    [m \in {markets[i] : i \in 1..Len(markets)} |->
       results[CHOOSE i \in 1..Len(markets) :
                 markets[i] = m /\ \A j \in 1..Len(markets) : markets[j] = m => j <= i].data]

\* for market, candles in results: the average of each result's own market
AvgByMarket(results) ==
    [m \in {results[i].market : i \in 1..Len(results)} |->
       results[CHOOSE i \in 1..Len(results) : results[i].market = m].data]

WaitPhases == {"select_wait", "generate_wait", "exits_wait"}

\* one task of the gather in flight completes with the exchange's answer
FetchCompletes ==
    /\ pc \in WaitPhases
    /\ \E i \in fanout.pending :
       \E data \in IF fanout.kind = "select" THEN AvgInputs ELSE FrameInputs :
         fanout' = [fanout EXCEPT
                      !.pending = @ \ {i},
                      !.results = @ @@ (i :> [market |-> fanout.markets[i],
                                              data |-> data]),
                      !.order = Append(@, i)]
    /\ UNCHANGED <<pc, state_vars, risk_vars, cycle_vars, hist_vars, call>>

\* _select_universe: fetch_krw_markets, then the tasks of filter_by_liquidity
SelectFanOut ==
    /\ pc = "select"
    /\ \E listing \in ListingInputs :
         fanout' = StartFanOut("select", fetch_krw_markets(listing))
    /\ pc' = "select_wait"
    /\ refresh0' = [refresh0 EXCEPT !.prior = <<>>]
    /\ UNCHANGED <<state_vars, risk_vars, cycle_vars, orders, error, fetch_failed,
                   limit_hit, entry0, exit0, call>>

\* filter_by_liquidity(top_n=50) once every day_candles call has returned
SelectUniverse ==
    /\ pc = "select_wait"
    /\ fanout.pending = {}
    /\ universe' = filter_by_liquidity(fanout.markets, AvgByMarket(gather(fanout)))
    /\ pc' = "generate"
    /\ UNCHANGED <<state_vars, risk_vars, signals, exit_items, exit_candles,
                   ordered, idx, open_weights, hist_vars, fanout, call>>

\* list_markets or one of the gathered day_candles calls raises
SelectFails ==
    /\ pc = "select" \/ (pc = "select_wait" /\ fanout.pending # {})
    /\ Raise("select")
    /\ refresh0' = [refresh0 EXCEPT !.prior = <<>>]
    /\ UNCHANGED <<state_vars, risk_vars, cycle_vars, orders, fetch_failed,
                   limit_hit, entry0, exit0, fanout, call>>

\* _generate_signals: the tasks of fetch_multi over the universe
GenerateFanOut ==
    /\ pc = "generate"
    /\ fanout' = StartFanOut("generate", universe)
    /\ pc' = "generate_wait"
    /\ UNCHANGED <<state_vars, risk_vars, cycle_vars, hist_vars, call>>

\* mutant: run_cycle goes from the signals to _enter_positions, past the exits
GenerateSignalsThenEntries ==
    /\ pc = "generate_wait"
    /\ fanout.pending = {}
    /\ signals' = SignalsOf(universe, JoinByMarket(fanout.markets, gather(fanout)))
    /\ pc' = "entries"
    /\ UNCHANGED <<state_vars, risk_vars, universe, exit_items, exit_candles,
                   ordered, idx, open_weights, hist_vars, fanout, call>>

\* _generate_signals once every fetch of fetch_multi's gather has returned
GenerateSignals ==
    /\ pc = "generate_wait"
    /\ fanout.pending = {}
    /\ signals' = SignalsOf(universe, JoinByMarket(fanout.markets, gather(fanout)))
    /\ pc' = "exits"
    /\ UNCHANGED <<state_vars, risk_vars, universe, exit_items, exit_candles,
                   ordered, idx, open_weights, hist_vars, fanout, call>>

\* asyncio.gather without return_exceptions: the first fetch_recent that raises
\* makes gather raise, out of fetch_multi, _generate_signals and run_cycle
GenerateFetchFails ==
    /\ pc = "generate_wait"
    /\ \E i \in fanout.pending : fetch_failed' = {fanout.markets[i]}
    /\ Raise("generate")
    /\ UNCHANGED <<state_vars, risk_vars, cycle_vars, orders, limit_hit, entry0,
                   exit0, refresh0, fanout, call>>

\* _exit_checks: no position, return at once
ExitChecksNone ==
    /\ pc = "exits"
    /\ positions = <<>>
    /\ pc' = "entries"
    /\ UNCHANGED <<state_vars, risk_vars, cycle_vars, hist_vars, fanout, call>>

\* _exit_checks: the tasks of fetch_multi over the position markets
ExitChecksFanOut ==
    /\ pc = "exits"
    /\ positions # <<>>
    /\ fanout' = StartFanOut("exits", [i \in 1..Len(positions) |-> positions[i].k])
    /\ pc' = "exits_wait"
    /\ UNCHANGED <<state_vars, risk_vars, cycle_vars, hist_vars, call>>

\* _exit_checks: the gather has returned, candles is joined, then list(items())
ExitChecksFetch ==
    /\ pc = "exits_wait"
    /\ fanout.pending = {}
    /\ exit_candles' = JoinByMarket(fanout.markets, gather(fanout))
    /\ exit_items' = positions
    /\ exit0' = positions
    /\ pc' = "exit_loop"
    /\ UNCHANGED <<state_vars, risk_vars, universe, signals, ordered, idx,
                   open_weights, orders, error, fetch_failed, limit_hit, entry0,
                   refresh0, fanout, call>>

ExitChecksFetchFails ==
    /\ pc = "exits_wait"
    /\ fanout.pending # {}
    /\ Raise("exit_fetch")
    /\ UNCHANGED <<state_vars, risk_vars, cycle_vars, orders, fetch_failed,
                   limit_hit, entry0, exit0, refresh0, fanout, call>>

\* mutant: the closing order repeats the side of the position
ExitOrderSameSide(pos, frame, ok) ==
    [kind |-> "exit", market |-> pos.market, side |-> pos.side,
     price |-> align_price(frame.close), volume |-> pos.volume, ok |-> ok]

\* the closing order of a position: opposite side, full volume, aligned close
ExitOrder(pos, frame, ok) ==
    [kind |-> "exit", market |-> pos.market,
     side |-> IF pos.side = "buy" THEN "sell" ELSE "buy",
     price |-> align_price(frame.close), volume |-> pos.volume, ok |-> ok]

ExitNext == IF Tail(exit_items) = <<>> THEN "entries" ELSE "exit_loop"

\* mutant: an exit registers its realized profit or loss with the risk engine
ExitStepRegistersPnl ==
    /\ pc = "exit_loop"
    /\ exit_items # <<>>
    /\ LET market == Head(exit_items).k
           pos == Head(exit_items).v
           frame == IF market \in DOMAIN exit_candles THEN exit_candles[market]
                    ELSE FetchError
       IN  IF frame = FetchError \/ frame.n = 0 \/ ~should_exit(frame, pos)
           THEN UNCHANGED <<positions, orders, daily_loss>>
           ELSE /\ orders' = Append(orders, ExitOrder(pos, frame, TRUE))
                /\ positions' = Pop(positions, market)
                /\ daily_loss' =
                     register_pnl(daily_loss,
                                  RMul(RSub(frame.close, pos.entry_price), pos.volume))
    /\ exit_items' = Tail(exit_items)
    /\ pc' = ExitNext
    /\ UNCHANGED <<equity, cash, universe, signals, exit_candles,
                   ordered, idx, open_weights, error, fetch_failed, limit_hit,
                   entry0, exit0, refresh0, fanout, call>>

\* one iteration of the loop of _exit_checks whose place_order (if any) returns
ExitStep ==
    /\ pc = "exit_loop"
    /\ exit_items # <<>>
    /\ LET market == Head(exit_items).k
           pos == Head(exit_items).v
           frame == IF market \in DOMAIN exit_candles THEN exit_candles[market]
                    ELSE FetchError
       IN  IF frame = FetchError \/ frame.n = 0 \/ ~should_exit(frame, pos)
           THEN UNCHANGED <<positions, orders>>
           ELSE /\ orders' = Append(orders, ExitOrder(pos, frame, TRUE))
                /\ positions' = Pop(positions, market)
    /\ exit_items' = Tail(exit_items)
    /\ pc' = ExitNext
    /\ UNCHANGED <<equity, cash, risk_vars, universe, signals, exit_candles,
                   ordered, idx, open_weights, error, fetch_failed, limit_hit,
                   entry0, exit0, refresh0, fanout, call>>

\* mutant: the position is popped before place_order is awaited
ExitOrderFailsPopped ==
    /\ pc = "exit_loop"
    /\ exit_items # <<>>
    /\ LET market == Head(exit_items).k
           pos == Head(exit_items).v
           frame == exit_candles[market]
       IN  /\ frame.n # 0
           /\ should_exit(frame, pos)
           /\ orders' = Append(orders, ExitOrder(pos, frame, FALSE))
           /\ positions' = Pop(positions, market)
    /\ Raise("exit_order")
    /\ UNCHANGED <<equity, cash, risk_vars, cycle_vars, fetch_failed, limit_hit,
                   entry0, exit0, refresh0, fanout, call>>

\* the iteration whose place_order raises: the position stays
ExitOrderFails ==
    /\ pc = "exit_loop"
    /\ exit_items # <<>>
    /\ LET market == Head(exit_items).k
           pos == Head(exit_items).v
           frame == exit_candles[market]
       IN  /\ frame.n # 0
           /\ should_exit(frame, pos)
           /\ orders' = Append(orders, ExitOrder(pos, frame, FALSE))
    /\ Raise("exit_order")
    /\ UNCHANGED <<state_vars, risk_vars, cycle_vars, fetch_failed, limit_hit,
                   entry0, exit0, refresh0, fanout, call>>

\* _enter_positions up to its loop
EnterPositions ==
    /\ pc = "entries"
    /\ IF hit_daily_limit(daily_loss, equity)
       THEN /\ limit_hit' = "yes"
            /\ pc' = "sleep"
            /\ UNCHANGED <<ordered, idx, open_weights>>
       ELSE /\ limit_hit' = "no"
            /\ open_weights' = open_weights_of(equity, positions)
            /\ ordered' = OrderedSignals(signals)
            /\ idx' = 1
            /\ pc' = IF signals = <<>> THEN "sleep" ELSE "enter_loop"
    /\ entry0' = [cash |-> cash, weights |-> open_weights_of(equity, positions),
                  positions |-> positions]
    /\ UNCHANGED <<state_vars, risk_vars, universe, signals, exit_items,
                   exit_candles, orders, error, fetch_failed, exit0, refresh0,
                   fanout, call>>

EnterNext == IF idx = Len(ordered) THEN "sleep" ELSE "enter_loop"

EntryOrder(signal, price, volume, ok) ==
    [kind |-> "entry", market |-> signal.market, side |-> signal.side,
     price |-> price, volume |-> volume, ok |-> ok]

\* one iteration of the loop of _enter_positions that raises nothing
EnterStep ==
    /\ pc = "enter_loop"
    /\ LET signal == ordered[idx]
       IN  IF ~can_open_new_position(equity, signal.market, open_weights)
           THEN UNCHANGED <<cash, positions, open_weights, orders>>
           ELSE \E chance \in ChanceInputs :
                \E bo \in {build_order(equity, signal.side, signal.entry,
                                       signal.stop, cash, chance)} :
                  LET price == bo[1]
                      volume == bo[2]
                  IN  IF RLe(volume, Zero)
                      THEN UNCHANGED <<cash, positions, open_weights, orders>>
                      ELSE /\ orders' = Append(orders,
                                               EntryOrder(signal, price, volume, TRUE))
                           /\ open_weights' =
                                  AddWeight(open_weights, signal.market,
                                            EntryWeight(equity, price, volume))
                           /\ cash' = RSub(cash, RMul(price, volume))
                           /\ positions' =
                                  Put(positions, signal.market,
                                      EntryPosition(signal, price, volume))
    /\ idx' = idx + 1
    /\ pc' = EnterNext
    /\ UNCHANGED <<equity, risk_vars, universe, signals, exit_items, exit_candles,
                   ordered, error, fetch_failed, limit_hit, entry0, exit0, refresh0,
                   call, fanout>>

\* client.order_chance raises inside build_order
EnterChanceFails ==
    /\ pc = "enter_loop"
    /\ can_open_new_position(equity, ordered[idx].market, open_weights)
    /\ Raise("order_chance")
    /\ UNCHANGED <<state_vars, risk_vars, cycle_vars, orders, fetch_failed,
                   limit_hit, entry0, exit0, refresh0, fanout, call>>

\* place_order raises inside submit_limit_order: nothing after it runs
EnterOrderFails ==
    /\ pc = "enter_loop"
    /\ LET signal == ordered[idx]
       IN  /\ can_open_new_position(equity, signal.market, open_weights)
           /\ \E chance \in ChanceInputs :
                \E bo \in {build_order(equity, signal.side, signal.entry,
                                       signal.stop, cash, chance)} :
                    /\ RGt(bo[2], Zero)
                    /\ orders' = Append(orders,
                                        EntryOrder(signal, bo[1], bo[2], FALSE))
    /\ Raise("entry_order")
    /\ UNCHANGED <<state_vars, risk_vars, cycle_vars, fetch_failed, limit_hit,
                   entry0, exit0, refresh0, fanout, call>>

\* mutant: run_forever without its try/except, only a cycle that raised
\* nothing is followed by the sleep and the next cycle
SleepAfterSuccess ==
    /\ pc = "sleep"
    /\ error = "none"
    /\ pc' = "refresh"
    /\ universe' = <<>> /\ signals' = <<>>
    /\ exit_items' = <<>> /\ exit_candles' = NoCandlesYet
    /\ ordered' = <<>> /\ idx' = 1 /\ open_weights' = <<>>
    /\ orders' = <<>> /\ error' = "none" /\ fetch_failed' = {}
    /\ limit_hit' = "na" /\ entry0' = NoEntry /\ exit0' = <<>>
    /\ refresh0' = NoRefresh
    /\ fanout' = NoFanOut
    /\ UNCHANGED <<state_vars, risk_vars, call>>

\* run_forever: asyncio.sleep, then the next run_cycle with fresh locals
Sleep ==
    /\ pc = "sleep"
    /\ pc' = "refresh"
    /\ universe' = <<>> /\ signals' = <<>>
    /\ exit_items' = <<>> /\ exit_candles' = NoCandlesYet
    /\ ordered' = <<>> /\ idx' = 1 /\ open_weights' = <<>>
    /\ orders' = <<>> /\ error' = "none" /\ fetch_failed' = {}
    /\ limit_hit' = "na" /\ entry0' = NoEntry /\ exit0' = <<>>
    /\ refresh0' = NoRefresh
    /\ fanout' = NoFanOut
    /\ UNCHANGED <<state_vars, risk_vars, call>>

Next ==
    \/ RefreshPortfolio \/ RefreshFails
    \/ FetchCompletes
    \/ SelectFanOut \/ SelectUniverse \/ SelectFails
    \/ GenerateFanOut \/ GenerateSignals \/ GenerateFetchFails
    \/ ExitChecksNone \/ ExitChecksFanOut \/ ExitChecksFetch \/ ExitChecksFetchFails
    \/ ExitStep \/ ExitOrderFails
    \/ EnterPositions
    \/ EnterStep \/ EnterChanceFails \/ EnterOrderFails
    \/ Sleep

Spec == Init /\ [][Next]_vars

\* asyncio.sleep(interval_sec) returns: the sleep of run_forever always ends
SpecLive == Init /\ [][Next]_vars /\ WF_vars(Sleep)

\* ------------------------------------------- the risk engine's daily account
\* register_pnl and reset_daily are called by whoever holds the bot's
\* RiskEngine (run_cycle itself calls neither); here between two cycles.

PnlInputs == {I(-15000), I(20000)}
MaxLossSteps == 2

RegisterPnl ==
    /\ pc = "refresh"
    /\ RGt(daily_loss, I(-15000 * MaxLossSteps))
    /\ \E realized \in PnlInputs : daily_loss' = register_pnl(daily_loss, realized)
    /\ UNCHANGED <<pc, state_vars, cycle_vars, hist_vars, fanout, call>>

ResetDaily ==
    /\ pc = "refresh"
    /\ daily_loss' = Zero
    /\ UNCHANGED <<pc, state_vars, cycle_vars, hist_vars, fanout, call>>

NextPnl == Next \/ RegisterPnl \/ ResetDaily

SpecPnl == Init /\ [][NextPnl]_vars

\* --------------------------------------------- _enter_positions, many holdings
\* _enter_positions of a cycle whose refresh found KRW and n holdings, none
\* with a ticker, whose exit checks closed nothing, and whose signals are
\* those of market 1 (held) and of two markets not held.

HeldCountInputs == {8, 9, 10, 11}

HeldBalances(n) ==
    <<Bal(KRW, 1000000, 0, 0)>> \o [i \in 1..n |-> Bal(i, 100, 0, 100)]

SignalMarkets(n) == <<1, n + 1, n + 2>>

InitEntries ==
    \E n \in HeldCountInputs :
      \E frames \in [{1, n + 1, n + 2} -> FrameInputs] :
        LET balances == HeldBalances(n)
            st == refresh_portfolio(balances, <<>>)
        IN  /\ pc = "entries"
            /\ equity = st.equity /\ cash = st.cash /\ positions = st.positions
            /\ daily_loss = Zero
            /\ universe = SignalMarkets(n)
            /\ signals = SignalsOf(SignalMarkets(n), frames)
            /\ exit_items = <<>> /\ exit_candles = NoCandlesYet
            /\ ordered = <<>> /\ idx = 1 /\ open_weights = <<>>
            /\ orders = <<>> /\ error = "none" /\ fetch_failed = {}
            /\ limit_hit = "na" /\ entry0 = NoEntry /\ exit0 = st.positions
            /\ refresh0 = [done |-> TRUE, balances |-> balances,
                           tickers |-> <<>>, prior |-> <<>>]
            /\ fanout = NoFanOut
            /\ call = NoCall

NextEntries == EnterPositions \/ EnterStep \/ EnterChanceFails \/ EnterOrderFails

SpecEntries == InitEntries /\ [][NextEntries]_vars

\* ------------------------------------------------ direct calls of the engines
\* Each action calls one function of an engine on arguments drawn from the
\* sets below and records the arguments and the result in call.

EquityCallInputs ==
    {I(-1000000), I(-1000), Zero, I(1000), I(250000), I(1000000)}
EntryCallInputs == {R(1, 2), I(100), R(2501, 25), R(2005, 2), I(1000)}
SizeEntryInputs == {R(1, 2), I(100), I(1000)}
StopCallInputs == {I(98), I(99), I(100), I(101), I(970), I(1000)}
CashCallInputs == {I(-500), Zero, I(1000), I(30000), I(30015), I(200000)}
ChanceCallInputs ==
    { Chance(Zero, Zero, Zero),
      Chance(I(5000), R(1, 2000), R(1, 1000)),
      Chance(I(50000), R(1, 100), R(1, 2000)) }
WeightCallInputs == {Zero, R(1, 20), R(1, 10), R(1, 4)}
MaxOpen == 11

CallPositionSize ==
    /\ call = NoCall
    /\ \E eq \in EquityCallInputs, entry \in SizeEntryInputs, stop \in StopCallInputs :
         call' = [fn |-> "position_size", equity |-> eq, entry |-> entry,
                  stop |-> stop, ret |-> position_size(eq, entry, stop)]
    /\ UNCHANGED <<pc, state_vars, risk_vars, cycle_vars, hist_vars, fanout>>

\* open_positions holds markets 1..n, market 1 with weight w1, the others w
CallCanOpen ==
    /\ call = NoCall
    /\ \E eq \in EquityCallInputs, n \in 0..MaxOpen, market \in {1, 2, MaxOpen + 1},
          w1 \in WeightCallInputs, w \in WeightCallInputs :
         LET open_positions == [i \in 1..n |-> [k |-> i, v |-> IF i = 1 THEN w1 ELSE w]]
         IN  call' = [fn |-> "can_open_new_position", equity |-> eq,
                      market |-> market, open_positions |-> open_positions,
                      ret |-> can_open_new_position(eq, market, open_positions)]
    /\ UNCHANGED <<pc, state_vars, risk_vars, cycle_vars, hist_vars, fanout>>

CallBuildOrder ==
    /\ call = NoCall
    /\ \E eq \in EquityCallInputs, side \in {"buy", "sell"},
          entry \in EntryCallInputs, stop \in StopCallInputs,
          cash_available \in CashCallInputs, chance \in ChanceCallInputs :
         call' = [fn |-> "build_order", equity |-> eq, side |-> side,
                  entry |-> entry, stop |-> stop,
                  cash_available |-> cash_available, chance |-> chance,
                  staged |-> StagedVolume(eq, side, entry, stop, chance),
                  ret |-> build_order(eq, side, entry, stop, cash_available, chance)]
    /\ UNCHANGED <<pc, state_vars, risk_vars, cycle_vars, hist_vars, fanout>>

ExitCallFrames ==
    { Frame(200, close, atr, hist, rsi, Zero) :
        close \in {I(95), I(97), I(100), I(103), I(106)},
        atr \in {NaN, Zero, I(1), I(10)},
        hist \in {I(-1), I(1)},
        rsi \in {NaN, I(40), I(50), I(60)} }

ExitCallPositions ==
    { [market |-> 1, side |-> side, entry_price |-> entry, volume |-> I(10),
       stop |-> stop, take_profit |-> tp, trailing |-> trailing] :
        side \in {"buy", "sell"}, entry \in {I(100), I(120)},
        stop \in {I(97), I(103)}, tp \in {I(94), I(105), I(200)},
        trailing \in {Zero, I(2)} }

CallShouldExit ==
    /\ call = NoCall
    /\ \E candles \in ExitCallFrames, position \in ExitCallPositions :
         call' = [fn |-> "should_exit", candles |-> candles, position |-> position,
                  ret |-> should_exit(candles, position)]
    /\ UNCHANGED <<pc, state_vars, risk_vars, cycle_vars, hist_vars, fanout>>

\* prices inside every tick band, on the band limits, just below them (they
\* round up onto the limit), and on ties between two ticks
PriceCallInputs ==
    { R(1, 1000), R(5, 1000), R(1234, 1000), R(9996, 1000), I(10),
      R(1005, 100), R(5555, 100), R(9996, 100), R(9995, 100), I(100),
      R(2005, 2), R(1999, 2), I(1000), R(20025, 10), I(9998), I(10000),
      I(12345), I(49996), I(50000), I(77775), I(99980), I(100000),
      I(123450), I(499960), I(500000), I(750250), I(999800), I(1000000),
      I(1500500), I(1999600), I(2000000), I(2001000), I(2003000) }

\* align_price applied to a price and again to its own result
CallAlignPrice ==
    /\ call = NoCall
    /\ \E price \in PriceCallInputs :
         call' = [fn |-> "align_price", price |-> price,
                  ret |-> align_price(price),
                  again |-> align_price(align_price(price))]
    /\ UNCHANGED <<pc, state_vars, risk_vars, cycle_vars, hist_vars, fanout>>

\* close series of up to MaxSeriesLen prices out of 1..MaxClose, and the
\* windows _rsi is called with
MaxSeriesLen == 4
MaxClose == 4
CloseSeriesInputs ==
    UNION {[1..n -> {I(c) : c \in 1..MaxClose}] : n \in 0..MaxSeriesLen}
WindowInputs == {2, 3}

CallRsi ==
    /\ call = NoCall
    /\ \E close \in CloseSeriesInputs, window \in WindowInputs :
         call' = [fn |-> "_rsi", close |-> close, window |-> window,
                  ret |-> _rsi(close, window)]
    /\ UNCHANGED <<pc, state_vars, risk_vars, cycle_vars, hist_vars, fanout>>

\* frames below and at the 60-bar guard, with a flat, tiny, moderate and wide
\* ATR and weighted sums of either sign
SignalCallFrames ==
    { Frame(n, close, atr, I(1), I(50), raw) :
        n \in {10, 59, 60, 200},
        close \in {R(1, 2), I(100), I(12345)},
        atr \in {NaN, Zero, R(1, 100), I(1), I(10), I(50)},
        raw \in {I(-5), R(-1, 10), Zero, R(1, 10), I(3)} }

CallGenerateEntrySignal ==
    /\ call = NoCall
    /\ \E candles \in SignalCallFrames :
         call' = [fn |-> "generate_entry_signal", market |-> 1, candles |-> candles,
                  ret |-> generate_entry_signal(1, candles)]
    /\ UNCHANGED <<pc, state_vars, risk_vars, cycle_vars, hist_vars, fanout>>

\* ---------------------------------------------------------------- binary64
\* Python's float is IEEE-754 binary64: every / and * rounds its exact result
\* to the nearest number with a 53-bit mantissa, ties to even. For integers
\* c, p >= 1 below 2^15 the two roundings of p * (c / p) are computed here
\* exactly, from the remainder of the division.

RECURSIVE Log2(_)
Log2(n) == IF n < 2 THEN 0 ELSE 1 + Log2(n \div 2)

RECURSIVE Pow2(_)
Pow2(k) == IF k = 0 THEN 1 ELSE 2 * Pow2(k - 1)

RECURSIVE Pow2Mod(_, _)
Pow2Mod(e, m) == IF e = 0 THEN 1 % m ELSE (2 * Pow2Mod(e - 1, m)) % m

\* the exponent E with 2^52 <= c * 2^E / p < 2^53
QuotExp(c, p) ==
    LET lc == Log2(c)
        lp == Log2(p)
    IN  52 - (lc - lp - (IF c * Pow2(lp) < p * Pow2(lc) THEN 1 ELSE 0))

\* c / p: the double nearest to the quotient, c/p + err / (p * 2^exp), where
\* err is what rounding c * 2^exp / p to an integer adds to c * 2^exp
Float64Div(c, p) ==
    LET E == QuotExp(c, p)
        r == ((c % p) * Pow2Mod(E, p)) % p
        r2 == ((c % (2 * p)) * Pow2Mod(E, 2 * p)) % (2 * p)
        odd == (r2 - r) \div p
        up == 2 * r > p \/ (2 * r = p /\ odd = 1)
    IN  [num |-> c, den |-> p, exp |-> E, err |-> IF up THEN p - r ELSE -r]

\* p * v for v = Float64Div(c, p): the exact product is c + err / 2^exp; the
\* double nearest to it is c + k * 2^x
Float64MulBack(p, v) ==
    LET c == v.num
        lc == Log2(c)
        ulp == Pow2(lc - 52 + v.exp)
        below == -v.err
    IN  IF v.err >= 0
        THEN [k |-> IF 2 * v.err > ulp THEN 1 ELSE 0, x |-> lc - 52]
        ELSE IF c = Pow2(lc)
        THEN LET half == ulp \div 2
                 q == below \div half
                 rem == below % half
             IN  [k |-> -(q + (IF 2 * rem > half \/ (2 * rem = half /\ q % 2 = 1)
                               THEN 1 ELSE 0)),
                  x |-> lc - 53]
        ELSE [k |-> IF 2 * below > ulp THEN -1 ELSE 0, x |-> lc - 52]

ClampCashInputs == {834, 952, 1000, 1024, 5251, 24190, 28918}
ClampPriceInputs == {300, 1300, 3000, 8000, 13000}

\* an entry of _enter_positions accepted with the volume of the cash clamp,
\* at a fee of 0 and an equity equal to the cash: volume = cash / price, then
\* cash -= price * volume, in binary64; after is cash - cash' as k * 2^x
CallEnterClamped ==
    /\ call = NoCall
    /\ \E c \in ClampCashInputs, p \in ClampPriceInputs :
         LET chance == Chance(Zero, Zero, Zero)
             stop == RMul(I(p), R(97, 100))
             volume == Float64Div(c, p)
         IN  /\ align_price(I(p)) = I(p)
             /\ RGt(OrderValue(I(p), StagedVolume(I(c), "buy", I(p), stop, chance),
                               Zero),
                    I(c))
             /\ call' = [fn |-> "enter_clamped", cash |-> c, price |-> p,
                         fee |-> Zero, volume |-> volume,
                         spent |-> Float64MulBack(p, volume)]
    /\ UNCHANGED <<pc, state_vars, risk_vars, cycle_vars, hist_vars, fanout>>

\* the caller drops the result before the next call
CallReturn ==
    /\ call # NoCall
    /\ call' = NoCall
    /\ UNCHANGED <<pc, state_vars, risk_vars, cycle_vars, hist_vars, fanout>>

NextCalls ==
    \/ CallPositionSize \/ CallCanOpen \/ CallBuildOrder \/ CallShouldExit
    \/ CallAlignPrice \/ CallRsi \/ CallGenerateEntrySignal
    \/ CallEnterClamped
    \/ CallReturn

SpecCalls == Init /\ [][NextCalls]_vars

\* ================================================================== claims
\* ------------------------------------------------ claims on the engine calls

CallIs(fn) == call # NoCall /\ call.fn = fn

RaisedCall ==
    /\ CallIs("build_order")
    /\ RGt(call.ret[1], Zero)
    /\ RLt(RMul(RMul(call.ret[1], position_size(call.equity, call.ret[1], call.stop)),
                RAdd(One, FeeOf(call.chance, call.side))),
           MinTotal(call.chance))

C7_PositionSize ==
    CallIs("position_size") =>
      LET by_risk == RDiv(RMul(call.equity, per_trade_risk_pct),
                          RAbs(RSub(call.entry, call.stop)))
          by_cap == RDiv(RMul(call.equity, max_position_pct), call.entry)
      IN  /\ call.entry = call.stop => call.ret = Zero
          /\ (RGt(call.equity, Zero) /\ RGt(call.entry, Zero) /\ call.entry # call.stop) =>
               /\ call.ret = IF RLe(by_risk, by_cap) THEN by_risk ELSE by_cap
               /\ RLe(call.ret, by_cap)

\* a call in which the position cap, not the risk amount, decides the size
C7_Witness ==
    /\ CallIs("position_size")
    /\ RGt(call.equity, Zero) /\ call.entry # call.stop
    /\ call.ret = RDiv(RMul(call.equity, max_position_pct), call.entry)
    /\ RLt(call.ret, RDiv(RMul(call.equity, per_trade_risk_pct),
                          RAbs(RSub(call.entry, call.stop))))

\* C8: position_size never returns a negative value, whatever the equity
\* (positive, zero or negative), for every entry > 0 and stop.
C8_NeverNegative ==
    (CallIs("position_size") /\ RGt(call.entry, Zero)) => RGe(call.ret, Zero)

\* C9: can_open_new_position is false when equity <= 0, when the number of
\* open positions is at least max_positions, when the open weights sum to at
\* least max_total_exposure_pct, or when the market already has a weight of
\* at least max_position_pct; in every other case it is true.
C9_CanOpen ==
    CallIs("can_open_new_position") =>
      LET ow == call.open_positions
          blocked ==
            \/ RLe(call.equity, Zero)
            \/ Len(ow) >= max_positions
            \/ RGe(SumValues(ow), max_total_exposure_pct)
            \/ \E i \in 1..Len(ow) :
                 ow[i].k = call.market /\ RGe(ow[i].v, max_position_pct)
      IN  /\ Len(ow) >= max_positions => ~call.ret
          /\ call.ret = ~blocked

\* max_positions open positions of little weight, a market not among them
C9_Witness ==
    /\ CallIs("can_open_new_position")
    /\ RGt(call.equity, Zero)
    /\ Len(call.open_positions) = max_positions
    /\ RLt(SumValues(call.open_positions), max_total_exposure_pct)
    /\ ~Has(call.open_positions, call.market)
    /\ ~call.ret

\* C10: should_exit is true for a long position whenever close <= stop and
\* for a short position whenever close >= stop, whatever the histogram, RSI,
\* ATR, take-profit and trailing values.
C10_StopExit ==
    CallIs("should_exit") =>
      /\ (call.position.side = "buy" /\ RLe(call.candles.close, call.position.stop))
           => call.ret
      /\ (call.position.side = "sell" /\ RGe(call.candles.close, call.position.stop))
           => call.ret

\* a long position at its stop that no other exit condition would close
C10_Witness ==
    /\ CallIs("should_exit")
    /\ call.position.side = "buy"
    /\ call.candles.close = call.position.stop
    /\ RGt(call.position.trailing, Zero)
    /\ RLt(call.candles.close, call.position.take_profit)
    /\ RGt(call.candles.hist, Zero)
    /\ IsNaN(call.candles.atr) /\ IsNaN(call.candles.rsi)
    /\ call.ret

\* --------------------------------------------------- claims on the cycle

\* C1: in GenerateSignals a candle fetch that fails for one market of the
\* universe does not abort the others: the cycle is not ended by it (the
\* other markets are scored and EvaluateExits and EvaluateEntries follow).
C1_FetchFailureIsolated ==
    fetch_failed # {} => ~(pc = "sleep" /\ error = "generate")

EntriesStarted == limit_hit # "na"

EntryAt(i) == orders[i].kind = "entry"
Entered(market) ==
    {i \in 1..Len(orders) : EntryAt(i) /\ orders[i].ok /\ orders[i].market = market}

\* |daily_loss| >= equity * daily_loss_limit_pct (daily_loss and equity do not
\* change between _enter_positions and the end of the cycle)
DailyLimitReached == RGe(RAbs(daily_loss), RMul(equity, daily_loss_limit_pct))

\* C2: in a cycle in which hit_daily_limit(state.equity) is true when
\* EvaluateEntries starts, no entry order is submitted whatever the signals,
\* cash, positions and the open weights stay as that phase found them, and
\* every position whose should_exit was true has had its closing order.
C2_DailyLimitBlocksEntries ==
    (EntriesStarted /\ DailyLimitReached) =>
      /\ \A i \in 1..Len(orders) : ~EntryAt(i)
      /\ error \notin {"order_chance", "entry_order"}
      /\ cash = entry0.cash
      /\ positions = entry0.positions
      /\ open_weights_of(equity, positions) = entry0.weights
      /\ \A i \in 1..Len(exit0) :
           should_exit(exit_candles[exit0[i].k], exit0[i].v) =>
             \E j \in 1..Len(orders) :
               orders[j] = ExitOrder(exit0[i].v, exit_candles[exit0[i].k], TRUE)

\* the limit is reached with a positive equity, signals exist, and an exit
\* order went out in the same cycle
C2_Witness ==
    /\ EntriesStarted /\ DailyLimitReached
    /\ RGt(equity, Zero)
    /\ signals # <<>>
    /\ \E j \in 1..Len(orders) : orders[j].kind = "exit" /\ orders[j].ok
    /\ pc = "sleep" /\ error = "none"

\* c less the notional of every accepted entry order of os, in log order
RECURSIVE CashLessEntries(_, _)
CashLessEntries(c, os) ==
    IF os = <<>> THEN c
    ELSE CashLessEntries(IF Head(os).kind = "entry" /\ Head(os).ok
                         THEN RSub(c, RMul(Head(os).price, Head(os).volume))
                         ELSE c,
                         Tail(os))

WeightAtStart(market) ==
    IF Has(entry0.weights, market) THEN Val(entry0.weights, market) ELSE Zero

OrderWeight(i) == RDiv(RMul(orders[i].price, orders[i].volume), equity)

\* the exposure budget is used up once the order i is counted
BudgetUsedUpBy(i) ==
    \/ RGe(RAdd(SumValues(entry0.weights), OrderWeight(i)), max_total_exposure_pct)
    \/ Len(entry0.weights)
         + (IF Has(entry0.weights, orders[i].market) THEN 0 ELSE 1) >= max_positions

\* the gate is open for market when _enter_positions begins
BudgetForOne(market) ==
    /\ RGt(equity, Zero)
    /\ Len(entry0.weights) < max_positions
    /\ RLt(SumValues(entry0.weights), max_total_exposure_pct)
    /\ RLt(WeightAtStart(market), max_position_pct)

SignalIndex(market) == Get(signals, market)

\* C4: EvaluateEntries takes the signals by |score| descending, equal |score|
\* in the order _generate_signals found them, and no entry order goes out
\* before the order of a signal with a strictly larger |score|.
C4_EntryOrder ==
    (limit_hit = "no") =>
      /\ Len(ordered) = Len(signals)
      /\ \A i \in 1..Len(ordered) :
           Has(signals, ordered[i].market) /\ Val(signals, ordered[i].market) = ordered[i]
      /\ \A i, j \in 1..Len(ordered) :
           i < j =>
             /\ RGe(RAbs(ordered[i].score), RAbs(ordered[j].score))
             /\ RAbs(ordered[i].score) = RAbs(ordered[j].score) =>
                  SignalIndex(ordered[i].market) < SignalIndex(ordered[j].market)
      /\ \A a, b \in 1..Len(orders) :
           (a < b /\ EntryAt(a) /\ EntryAt(b)) =>
             RGe(RAbs(Val(signals, orders[a].market).score),
                 RAbs(Val(signals, orders[b].market).score))

\* a short signal and a long signal of equal |score|, both entered, the one
\* found first entered first
C4_Witness ==
    /\ limit_hit = "no" /\ pc = "sleep" /\ error = "none"
    /\ Len(ordered) = 2
    /\ RLt(ordered[1].score, Zero) /\ RGt(ordered[2].score, Zero)
    /\ RAbs(ordered[1].score) = ordered[2].score
    /\ Len(orders) = 2 /\ EntryAt(1) /\ EntryAt(2)
    /\ orders[1].market = ordered[1].market /\ orders[2].market = ordered[2].market

\* ------------------------------------------------- claims on align_price

TickBandLimits ==
    {I(10), I(100), I(1000), I(10000), I(50000), I(100000), I(500000),
     I(1000000), I(2000000)}

\* C11: align_price is idempotent for every price > 0, the prices that round
\* up onto the limit of a tick band and are re-aligned with the tick of the
\* next band included: align_price(align_price(p)) = align_price(p).
C11_AlignIdempotent ==
    (CallIs("align_price") /\ RGt(call.price, Zero)) => call.again = call.ret

\* a price rounded up onto a band limit, whose tick differs from the price's
C11_Witness ==
    /\ CallIs("align_price")
    /\ RLt(call.price, call.ret)
    /\ call.ret \in TickBandLimits
    /\ _tick_size(call.ret) # _tick_size(call.price)
    /\ call.again = call.ret

\* ---------------------------------------------------- claims on indicators

Increasing(close) == \A i \in 2..Len(close) : RGt(close[i], close[i - 1])

\* C12: for a close series that rises at every bar, _rsi is exactly 100 at every
\* index past the warm-up window (an average loss of 0 counts as an infinite
\* rs), never 0.
C12_RsiSaturates ==
    (CallIs("_rsi") /\ Increasing(call.close)) =>
      \A i \in (call.window + 1)..Len(call.close) : call.ret[i] = I(100)

\* ---------------------------------------------- claims on refresh_portfolio

JustRefreshed == pc = "select" /\ refresh0.done

\* free + locked of every KRW row of the balances
RECURSIVE KrwRows(_)
KrwRows(balances) ==
    IF balances = <<>> THEN Zero
    ELSE RAdd(IF Head(balances).currency = KRW
              THEN RAdd(Head(balances).balance, Head(balances).locked) ELSE Zero,
              KrwRows(Tail(balances)))

\* the ticker's price of the position's market, else its average buy price
MarkOf(position) ==
    IF position.market \in DOMAIN refresh0.tickers
    THEN refresh0.tickers[position.market] ELSE position.entry_price

RECURSIVE ValueAtMark(_)
ValueAtMark(ps) ==
    IF ps = <<>> THEN Zero
    ELSE RAdd(RMul(MarkOf(Head(ps).v), Head(ps).v.volume), ValueAtMark(Tail(ps)))

\* C13: immediately after refresh_portfolio, for any balances and tickers,
\* cash is the total KRW balance (free + locked) and equity is cash plus the
\* sum over the rebuilt positions of mark price * volume, the mark price being
\* the ticker's price or, without a ticker, the average buy price.
C13_EquityIdentity ==
    JustRefreshed =>
      /\ cash = KrwRows(refresh0.balances)
      /\ equity = RAdd(cash, ValueAtMark(positions))

\* two holdings and locked KRW aside: one marked by a ticker away from its
\* average buy price, one without a ticker
C13_Witness ==
    /\ JustRefreshed
    /\ \E i, j \in 1..Len(positions) :
         /\ positions[i].k \in DOMAIN refresh0.tickers
         /\ refresh0.tickers[positions[i].k] # positions[i].v.entry_price
         /\ positions[j].k \notin DOMAIN refresh0.tickers
    /\ RGt(cash, Zero)

\* ------------------------------------------------ claims on the cycle's order

\* RefreshPortfolio 1, SelectUniverse 2, GenerateSignals 3, EvaluateExits 4,
\* EvaluateEntries 5, the sleep of run_forever 6
PhaseRank(p) ==
    CASE p = "refresh" -> 1
      [] p \in {"select", "select_wait"} -> 2
      [] p \in {"generate", "generate_wait"} -> 3
      [] p \in {"exits", "exits_wait", "exit_loop"} -> 4
      [] p \in {"entries", "enter_loop"} -> 5
      [] p = "sleep" -> 6

SubmittedNow == orders' # orders /\ orders' # <<>>

\* C14: within a cycle the phases run strictly in the order RefreshPortfolio,
\* SelectUniverse, GenerateSignals, EvaluateExits, EvaluateEntries: a step
\* stays in its phase, goes to the next one, or ends the cycle; an exit or
\* entry order is only submitted after the refresh of the cycle, an exit
\* order only in EvaluateExits, an entry order only in EvaluateEntries when
\* no exit check is left.
C14_PhaseOrder ==
    [][ /\ PhaseRank(pc') \in {PhaseRank(pc), PhaseRank(pc) + 1, 6}
           \/ (pc = "sleep" /\ pc' = "refresh")
        /\ SubmittedNow =>
             /\ refresh0.done
             /\ orders'[Len(orders')].kind = "exit" => PhaseRank(pc) = 4
             /\ orders'[Len(orders')].kind = "entry" =>
                  PhaseRank(pc) = 5 /\ exit_items = <<>>
      ]_vars

\* a cycle that ran through with an exit order and, after it, an entry order
C14_Witness ==
    /\ pc = "sleep" /\ error = "none" /\ refresh0.done
    /\ \E i, j \in 1..Len(orders) :
         i < j /\ orders[i].kind = "exit" /\ orders[j].kind = "entry"

\* -------------------------------------------------- claims on run_forever

CycleFailed == pc = "sleep" /\ error # "none"

\* C15: a failure of one cycle never ends the control loop: whenever a phase
\* of run_cycle raises (refresh, universe selection, signal fetch, exit or
\* entry submission) the exception is caught by run_forever, which sleeps,
\* and a new cycle beginning with RefreshPortfolio is eventually started.
C15_LoopContinues ==
    /\ [](error # "none" => pc = "sleep")
    /\ \A phase \in {"refresh", "select", "generate", "exit_fetch", "exit_order",
                     "order_chance", "entry_order"} :
         (pc = "sleep" /\ error = phase) ~> (pc = "refresh" /\ error = "none")

\* a cycle that failed late: an exit was accepted, then an entry was refused
C15_Witness ==
    /\ CycleFailed
    /\ error = "entry_order"
    /\ \E i \in 1..Len(orders) : orders[i].kind = "exit" /\ orders[i].ok

\* ------------------------------------------------------ claims on Signal

\* the weighted sum of the frame gives no score: too few bars, no positive
\* ATR, or a sum of 0
Unscored(candles) ==
    candles.n < 60 \/ ~RGt(candles.atr, Zero) \/ candles.raw = Zero

\* C16: every Signal generate_entry_signal returns for bars with a last
\* close > 0 has stop < entry < take_profit when long and
\* take_profit < entry < stop when short, a trailing distance >= 0, and is
\* long exactly when the score is > 0 and short exactly when it is < 0; no
\* Signal is returned when the score is 0.
C16_SignalInvariant ==
    (CallIs("generate_entry_signal") /\ RGt(call.candles.close, Zero)) =>
      /\ call.ret = <<>> <=> Unscored(call.candles)
      /\ call.ret # <<>> =>
           LET sig == call.ret[1]
           IN  /\ sig.side \in {"buy", "sell"}
               /\ sig.side = "buy" <=> RGt(sig.score, Zero)
               /\ sig.side = "sell" <=> RLt(sig.score, Zero)
               /\ sig.score = call.candles.raw
               /\ sig.entry = call.candles.close
               /\ sig.side = "buy" =>
                    RLt(sig.stop, sig.entry) /\ RLt(sig.entry, sig.take_profit)
               /\ sig.side = "sell" =>
                    RLt(sig.take_profit, sig.entry) /\ RLt(sig.entry, sig.stop)
               /\ RGe(sig.trailing, Zero)

\* a short signal whose stop is the 3 % cap, its take-profit below zero
C16_Witness ==
    /\ CallIs("generate_entry_signal")
    /\ call.ret # <<>>
    /\ call.ret[1].side = "sell"
    /\ call.ret[1].stop = RMul(call.candles.close, R(103, 100))
    /\ RLt(call.ret[1].take_profit, Zero)

\* ------------------------------------------------- claims on the fan-out

\* what the task asked about market m answered
Answer(m) ==
    fanout.results[CHOOSE i \in DOMAIN fanout.results :
                     fanout.results[i].market = m].data
AnswerMap == [m \in {fanout.markets[i] : i \in 1..Len(fanout.markets)} |-> Answer(m)]

FetchPhases ==
    {"select", "select_wait", "generate", "generate_wait", "exits", "exits_wait"}

\* C17: while the per-market fetches of filter_by_liquidity and fetch_multi
\* are in flight no field of PortfolioState changes, and whatever the order
\* in which they complete each market's result is joined under that market:
\* the universe, the signals and the candles of the exit checks are those of
\* the mapping market -> answer to that market's fetch.
C17_FanOutJoin ==
    /\ [](/\ (fanout.kind = "select" /\ pc = "generate") =>
               universe = filter_by_liquidity(fanout.markets, AnswerMap)
          /\ (fanout.kind = "generate" /\ pc = "exits") =>
               signals = SignalsOf(universe, AnswerMap)
          /\ (fanout.kind = "exits" /\ pc = "exit_loop") =>
               exit_candles = AnswerMap)
    /\ [][state_vars' # state_vars => pc \notin FetchPhases]_vars

\* two fetches of the exit checks that completed in the reverse order with
\* different frames, joined
C17_Witness ==
    /\ fanout.kind = "exits" /\ pc = "exit_loop"
    /\ fanout.order = <<2, 1>>
    /\ fanout.results[1].data # fanout.results[2].data
    /\ exit_candles[fanout.markets[1]] = fanout.results[1].data
    /\ exit_candles[fanout.markets[2]] = fanout.results[2].data

\* ---------------------------------------------------- claims on the exits

\* the orders of the log that close market
ClosingOrders(market) ==
    {i \in 1..Len(orders) : orders[i].kind = "exit" /\ orders[i].market = market}

\* C18: when EvaluateExits has run through, every position that was open,
\* had candle data and for which should_exit was true has exactly one
\* closing order, of the opposite side, for its full volume, at the aligned
\* last close, and is no longer in PortfolioState; every other position is
\* in PortfolioState as it was and has no order.
C18_ExitsCloseOnce ==
    (pc = "entries") =>
      /\ Keys(positions) \subseteq Keys(exit0)
      /\ \A i \in 1..Len(exit0) :
           LET market == exit0[i].k
               pos == exit0[i].v
               frame == exit_candles[market]
           IN  IF frame.n > 0 /\ should_exit(frame, pos)
               THEN /\ Cardinality(ClosingOrders(market)) = 1
                    /\ \A j \in ClosingOrders(market) :
                         /\ orders[j].side = (IF pos.side = "buy" THEN "sell" ELSE "buy")
                         /\ orders[j].volume = pos.volume
                         /\ orders[j].price = align_price(frame.close)
                         /\ orders[j].ok
                    /\ ~Has(positions, market)
               ELSE /\ ClosingOrders(market) = {}
                    /\ Has(positions, market)
                    /\ Val(positions, market) = pos

\* of two open positions one was closed and one stayed
C18_Witness ==
    /\ pc = "entries"
    /\ Len(exit0) = 2
    /\ Len(positions) = 1
    /\ Cardinality(ClosingOrders(exit0[1].k)) + Cardinality(ClosingOrders(exit0[2].k)) = 1

\* ------------------------------------------- claims on a refused order

Refused == {i \in 1..Len(orders) : ~orders[i].ok}

\* the accepted entry orders of market after order i
EnteredAfter(market, i) == {j \in Entered(market) : j > i}

\* C19: a place_order that fails is not retried and ends the cycle: the
\* refused order is the last of the log and there once, the exception is the
\* cycle's, a refused exit leaves its position in PortfolioState, a refused
\* entry leaves cash, open_weights and positions as they were before its
\* signal, and what the orders accepted before it did remains.
C19_RefusedOrderEndsCycle ==
    /\ \A i \in Refused :
         /\ i = Len(orders)
         /\ pc = "sleep"
         /\ error = (IF orders[i].kind = "exit" THEN "exit_order" ELSE "entry_order")
         /\ \A j \in 1..Len(orders) :
              (orders[j].kind = orders[i].kind /\ orders[j].market = orders[i].market)
                => j = i
         /\ orders[i].kind = "exit" =>
              /\ Has(positions, orders[i].market)
              /\ Val(positions, orders[i].market) = Val(exit0, orders[i].market)
         /\ orders[i].kind = "entry" =>
              /\ cash = CashLessEntries(entry0.cash, orders)
              /\ Has(open_weights, orders[i].market)
                   <=> Has(entry0.weights, orders[i].market)
              /\ Has(open_weights, orders[i].market) =>
                   Val(open_weights, orders[i].market) = WeightAtStart(orders[i].market)
              /\ Has(positions, orders[i].market)
                   <=> Has(entry0.positions, orders[i].market)
              /\ Has(positions, orders[i].market) =>
                   Val(positions, orders[i].market)
                     = Val(entry0.positions, orders[i].market)
    /\ \A i \in 1..Len(orders) :
         /\ (orders[i].ok /\ orders[i].kind = "exit"
               /\ EnteredAfter(orders[i].market, i) = {})
              => ~Has(positions, orders[i].market)
         /\ (orders[i].ok /\ orders[i].kind = "entry") =>
              /\ Has(positions, orders[i].market)
              /\ Val(positions, orders[i].market).entry_price = orders[i].price
              /\ Val(positions, orders[i].market).volume = orders[i].volume
              /\ Val(positions, orders[i].market).side = orders[i].side

\* an entry refused after an order of the same cycle had been accepted
C19_Witness ==
    /\ pc = "sleep" /\ error = "entry_order"
    /\ Len(orders) >= 2
    /\ orders[1].ok
    /\ ~orders[Len(orders)].ok
    /\ Len(positions) >= 1

\* ------------------------------------- claims on the rebuilt PortfolioState

NonKrw(balances) ==
    {balances[i].currency : i \in 1..Len(balances)} \ {KRW}

\* the row of the balances that decides the holding of a currency: the last
LastRow(balances, currency) ==
    balances[CHOOSE i \in 1..Len(balances) :
               /\ balances[i].currency = currency
               /\ \A j \in 1..Len(balances) :
                    balances[j].currency = currency => j <= i]

\* the PositionSnapshot the balances and tickers alone give a market
SnapshotOf(market, balances, tickers) ==
    LET row == LastRow(balances, market)
        price == IF market \in DOMAIN tickers THEN tickers[market]
                 ELSE row.avg_buy_price
    IN  [market |-> market, side |-> "buy", entry_price |-> row.avg_buy_price,
         volume |-> RAdd(row.balance, row.locked),
         stop |-> RMul(price, R(97, 100)),
         take_profit |-> RMul(price, R(105, 100)),
         trailing |-> RMul(price, R(2, 100))]

\* a position whose stop and trailing are not the 97% and 2% of one price, as
\* an entry of _enter_positions records it from its signal
EntryRecorded(position) ==
    RMul(position.trailing, I(97)) # RMul(position.stop, I(2))

\* C20: refresh_portfolio rebuilds PortfolioState from scratch: after it cash,
\* equity and positions are what the balances and the tickers alone give,
\* whatever the positions were before; the keys of positions are the non-KRW
\* currencies of the balances, and no position of an earlier cycle, nor its
\* stop, take_profit or trailing, survives.
C20_RebuiltFromScratch ==
    JustRefreshed =>
      /\ cash = KrwRows(refresh0.balances)
      /\ equity = RAdd(cash, ValueAtMark(positions))
      /\ Keys(positions) = NonKrw(refresh0.balances)
      /\ Len(positions) = Cardinality(NonKrw(refresh0.balances))
      /\ \A i \in 1..Len(positions) :
           positions[i].v
             = SnapshotOf(positions[i].k, refresh0.balances, refresh0.tickers)
      /\ \A i \in 1..Len(refresh0.prior) :
           refresh0.prior[i].k \notin NonKrw(refresh0.balances)
             => ~Has(positions, refresh0.prior[i].k)

\* the refresh of a later cycle: of the positions the entries of the cycle
\* before had recorded, one is of a market no longer held and one of a market
\* still held
C20_Witness ==
    /\ JustRefreshed
    /\ \E i, j \in 1..Len(refresh0.prior) :
         /\ EntryRecorded(refresh0.prior[i].v)
         /\ ~Has(positions, refresh0.prior[i].k)
         /\ EntryRecorded(refresh0.prior[j].v)
         /\ Has(positions, refresh0.prior[j].k)
         /\ Val(positions, refresh0.prior[j].k) # refresh0.prior[j].v

\* ------------------------------------------------- claims on the cash left

\* C21: with cash >= 0 before it, an accepted entry leaves cash >= 0: the
\* notional price * volume taken off cash is at most the cash that was passed
\* to build_order as cash_available, for any price > 0 and fee >= 0.
C21_CashNeverNegative ==
    (CallIs("enter_clamped") /\ call.cash >= 0 /\ call.price > 0
       /\ RGe(call.fee, Zero)) =>
      call.spent.k <= 0

\* ----------------------------------------- claims on the number of positions

MaxOf(a, b) == IF a >= b THEN a ELSE b

\* signals of ordered without an order, whose market is not held
Unentered ==
    {i \in 1..Len(ordered) :
       /\ ~Has(positions, ordered[i].market)
       /\ \A j \in 1..Len(orders) : orders[j].market # ordered[i].market}

\* C22: _enter_positions never takes the number of open positions above
\* max_positions: after any sequence of accepted entries of a cycle the
\* number of positions of PortfolioState is at most the larger of
\* max_positions and the number of positions when _enter_positions began.
C22_PositionCount ==
    limit_hit = "no" =>
      Len(positions) <= MaxOf(max_positions, Len(entry0.positions))

\* nine positions at the start, a tenth entered, and a signal of a market not
\* held left without an order although cash remains
C22_Witness ==
    /\ limit_hit = "no" /\ pc = "sleep" /\ error = "none"
    /\ Len(entry0.positions) = max_positions - 1
    /\ Len(positions) = max_positions
    /\ \E i \in 1..Len(orders) : EntryAt(i)
    /\ Unentered # {}
    /\ RGt(cash, I(min_total_floor))

\* ------------------------------------------- claims on the per-position cap

\* C23: the per-position cap of position_size survives the later stages of
\* build_order: for equity > 0 (and a cash_available between 0 and equity, as
\* _enter_positions passes it) the returned price and volume satisfy
\* price * volume <= equity * max_position_pct, also when the
\* minimum-notional stage raises the volume.
C23_CapSurvivesClamps ==
    (/\ CallIs("build_order")
     /\ RGt(call.equity, Zero)
     /\ RGe(call.cash_available, Zero)
     /\ RLe(call.cash_available, call.equity)) =>
      RLe(RMul(call.ret[1], call.ret[2]), RMul(call.equity, max_position_pct))

\* --------------------------------------------- claims on the daily account

\* C24: no phase of run_cycle changes RiskEngine.daily_loss, also when exit
\* orders are submitted: over any number of cycles daily_loss keeps its
\* initial value 0, and hit_daily_limit(state.equity) answers true in a cycle
\* exactly when state.equity <= 0.
C24_DailyLossUntouched ==
    /\ [][daily_loss' = daily_loss]_vars
    /\ [](/\ daily_loss = Zero
          /\ limit_hit = "yes" => RLe(equity, Zero)
          /\ limit_hit = "no" => RGt(equity, Zero))

\* a cycle that closed a position at a loss and whose entry gate was open
C24_Witness ==
    /\ pc = "sleep" /\ limit_hit = "no"
    /\ \E i \in 1..Len(orders) :
         /\ orders[i].kind = "exit" /\ orders[i].ok
         /\ Has(exit0, orders[i].market)
         /\ RLt(orders[i].price, Val(exit0, orders[i].market).entry_price)

\* --------------------------------------------- claims on the exposure map

\* C25: after every accepted entry the exposure map of the gate agrees with
\* the portfolio: for every market, the local open_weights[market] of
\* _enter_positions is entry_price * volume / equity of the one
\* PositionSnapshot PortfolioState holds for it, i.e. the map equals
\* PortfolioState.open_weights(), also when the entered market already had a
\* position of a weight below max_position_pct.
C25_WeightsAgree ==
    limit_hit = "no" =>
      /\ Keys(open_weights) = Keys(positions)
      /\ \A m \in Keys(positions) :
           Val(open_weights, m) = Val(open_weights_of(equity, positions), m)

\* --------------------------------------------- claims on the trailing stop

\* the call's close is at or beyond the position's fixed stop
StopReached ==
    IF call.position.side = "buy"
    THEN RLe(call.candles.close, call.position.stop)
    ELSE RGe(call.candles.close, call.position.stop)

\* none of the exit conditions after the first holds for the call
LaterConditionsOff ==
    LET close == call.candles.close
        atr == call.candles.atr
        position == call.position
    IN  IF position.side = "buy"
        THEN /\ ~RGe(close, position.take_profit)
             /\ ~(RLt(call.candles.hist, Zero) /\ RLt(call.candles.rsi, I(45)))
             /\ ~(RGt(atr, Zero)
                  /\ RLt(RDiv(RSub(close, position.entry_price), atr), I(-1)))
        ELSE /\ ~RLe(close, position.take_profit)
             /\ ~(RGt(call.candles.hist, Zero) /\ RGt(call.candles.rsi, I(55)))
             /\ ~(RGt(atr, Zero)
                  /\ RLt(RDiv(RSub(position.entry_price, close), atr), I(-1)))

\* C26: should_exit takes its trailing stop from the current close itself
\* (close - trailing for a long, close + trailing for a short): with
\* trailing > 0 the first exit condition holds exactly when close <= stop
\* (long) or close >= stop (short), so that the trailing distance closes
\* nothing by itself; with trailing = 0 the first condition holds for every
\* close and should_exit is always true.
C26_TrailingFromClose ==
    CallIs("should_exit") =>
      /\ (RGt(call.position.trailing, Zero) /\ LaterConditionsOff)
           => (call.ret <=> StopReached)
      /\ call.position.trailing = Zero => call.ret

\* a short position with a trailing distance of 2, three below its stop and
\* with no other reason to close: it stays open
C26_Witness ==
    /\ CallIs("should_exit")
    /\ call.position.side = "sell"
    /\ call.position.trailing = I(2)
    /\ call.position.stop = I(103) /\ call.candles.close = I(100)
    /\ LaterConditionsOff
    /\ ~call.ret

====
